---- MODULE Spec2Model ----
(***************************************************************************)
(* A model of filesystem_tree.FilesystemTree: one instance, its root       *)
(* directory on disk, and the operations mk, resolve, remove, __enter__    *)
(* and __exit__.                                                           *)
(*                                                                         *)
(* Strings are sequences: a '/'-separated path is a sequence of tokens     *)
(* ("/" or a name), file contents are sequences of code points (text) or   *)
(* of byte values (bytes).  The filesystem under the root is a function    *)
(* from node paths (sequences of names, <<>> being the root) to entries.   *)
(* mk runs one loop iteration per step; the items of treedef are drawn as  *)
(* the loop reaches them.                                                  *)
(***************************************************************************)
EXTENDS Integers, Sequences, FiniteSets, TLC

VARIABLES
    fs,                  \* the disk under (and including) self.root
    py3,                 \* sys.version_info >= (3, 0, 0)
    self_should_dedent,  \* instance attribute self.should_dedent
    self_encoding,       \* instance attribute self.encoding
    pc,                  \* "idle", or "mk" while mk's loop is running
    kw,                  \* mk's **kw
    should_dedent,       \* mk's local should_dedent
    encoding,            \* mk's local encoding
    nitems,              \* len(treedef) of the running (or failed) mk call
    done,                \* loop iterations begun by that call
    item,                \* mk's loop variable
    raised,              \* exception the last call propagated, or "none"
    ret,                 \* value the last call returned
    last,                \* name of the last operation called
    scope                \* position relative to a with-block on the instance

vars == <<fs, py3, self_should_dedent, self_encoding, pc, kw, should_dedent,
          encoding, nitems, done, item, raised, ret, last, scope>>

frame == <<kw, should_dedent, encoding, nitems, done, item>>

attrs == <<self_should_dedent, self_encoding>>

----------------------------------------------------------------------------
(* Bounds and input sets *)

MaxBatch == 2

\* '/'-separated paths handed to mk and resolve: '', '/a', 'a/', 'b', 'a/b'.
\* No two names are adjacent, so each token between separators is a whole name.
PathStrings ==
    { <<>>, <<"/", "a">>, <<"a", "/">>, <<"b">>, <<"a", "/", "b">> }

Encodings == {"UTF-8", "cp1140"}

Text(s) == [text |-> TRUE, data |-> s]

Bytes(s) == [text |-> FALSE, data |-> s]

\* ' x' as text and b' x' as bytes
Contents == { Text(<<32, 120>>), Bytes(<<32, 120>>) }

\* the inputs of the configuration runs: '\x04' and ' x', written to 'b'
CfgPaths == { <<"b">> }

CfgContents == { Text(<<4>>), Text(<<32, 120>>) }

----------------------------------------------------------------------------
(* Class attributes *)

ClassShouldDedent == TRUE

ClassEncoding == "UTF-8"

_sep == "SEP"

Root == <<"ROOT">>

----------------------------------------------------------------------------
(* Strings *)

RECURSIVE LStrip(_, _)
\* str.lstrip(ch)
LStrip(s, ch) ==
    IF s # <<>> /\ Head(s) = ch THEN LStrip(Tail(s), ch) ELSE s

RECURSIVE RStrip(_, _)
\* str.rstrip(ch)
RStrip(s, ch) ==
    IF s # <<>> /\ s[Len(s)] = ch THEN RStrip(SubSeq(s, 1, Len(s) - 1), ch) ELSE s

RECURSIVE Split(_, _)
\* str.split(ch): the list of the pieces between the separators
Split(s, ch) ==
    IF \A i \in 1..Len(s) : s[i] # ch
    THEN <<s>>
    ELSE LET i == CHOOSE j \in 1..Len(s) :
                      s[j] = ch /\ \A k \in 1..(j - 1) : s[k] # ch
         IN  <<SubSeq(s, 1, i - 1)>> \o Split(SubSeq(s, i + 1, Len(s)), ch)

RECURSIVE Join(_, _)
\* ch.join(parts)
Join(parts, ch) ==
    IF parts = <<>> THEN <<>>
    ELSE IF Len(parts) = 1 THEN parts[1]
    ELSE parts[1] \o <<ch>> \o Join(Tail(parts), ch)

RECURSIVE Flatten(_)
Flatten(parts) ==
    IF parts = <<>> THEN <<>> ELSE parts[1] \o Flatten(Tail(parts))

\* rfind: the last index of ch in s, 0 when there is none
LastIndex(s, ch) ==
    IF \A i \in 1..Len(s) : s[i] # ch THEN 0
    ELSE CHOOSE i \in 1..Len(s) : s[i] = ch /\ \A k \in (i + 1)..Len(s) : s[k] # ch

----------------------------------------------------------------------------
(* Paths *)

convert_path(path) == Join(Split(path, "/"), _sep)

\* the native path mk builds for a '/'-separated path
NativePath(p) == Join(<<Root, convert_path(LStrip(p, "/"))>>, _sep)

\* os.path.dirname
dirname(path) ==
    LET i    == LastIndex(path, _sep)
        head == SubSeq(path, 1, i)
    IN  IF head # <<>> /\ \E k \in 1..Len(head) : head[k] # _sep
        THEN RStrip(head, _sep) ELSE head

\* the node a native path under the root names: its components after the
\* root, empty components (doubled or trailing separators) ignored
Node(path) ==
    LET parts == Split(path, _sep)
    IN  Flatten([k \in 1..(Len(parts) - 1) |-> parts[k + 1]])

Prefixes(n) == { SubSeq(n, 1, k) : k \in 0..Len(n) }

Nodes == UNION { Prefixes(Node(NativePath(p))) : p \in PathStrings }

Parent(n) == SubSeq(n, 1, Len(n) - 1)

----------------------------------------------------------------------------
(* Content transforms *)

Whitespace == {32, 9}

IsBlankLine(l) == \A i \in 1..Len(l) : l[i] \in Whitespace

\* the leading whitespace of a line
Indent(l) ==
    IF \A i \in 1..Len(l) : l[i] \in Whitespace THEN l
    ELSE LET i == CHOOSE j \in 1..Len(l) :
                      l[j] \notin Whitespace /\ \A k \in 1..(j - 1) : l[k] \in Whitespace
         IN  SubSeq(l, 1, i - 1)

IsCommonPrefix(m, ls) ==
    \A l \in ls : Len(m) <= Len(l) /\ SubSeq(l, 1, Len(m)) = m

\* textwrap.dedent: whitespace-only lines become empty, and the longest
\* whitespace prefix common to the other lines is removed from each of them
dedent(s) ==
    LET nl       == 10
        lines    == Split(s, nl)
        nonblank == { lines[i] : i \in { j \in 1..Len(lines) : ~IsBlankLine(lines[j]) } }
        indents  == { Indent(l) : l \in nonblank }
        cands    == UNION { Prefixes(m) : m \in indents }
        common   == { m \in cands : IsCommonPrefix(m, indents) }
        margin   == IF indents = {} THEN <<>>
                    ELSE CHOOSE m \in common : \A o \in common : Len(o) <= Len(m)
        strip(l) == IF IsBlankLine(l) THEN <<>>
                    ELSE SubSeq(l, Len(margin) + 1, Len(l))
    IN  Join([i \in 1..Len(lines) |-> strip(lines[i])], nl)

\* the bytes of one code point in the named encoding
EncodeChar(c, enc) ==
    IF enc = "UTF-8"
    THEN IF c < 128 THEN <<c>> ELSE <<192 + (c \div 64), 128 + (c % 64)>>
    ELSE CASE c = 4   -> <<55>>
           [] c = 9   -> <<5>>
           [] c = 10  -> <<37>>
           [] c = 32  -> <<64>>
           [] c = 120 -> <<167>>

\* str.encode(encoding)
Encode(s, enc) == Flatten([i \in 1..Len(s) |-> EncodeChar(s[i], enc)])

is_bytestring(c) == ~c.text

----------------------------------------------------------------------------
(* The disk *)

NoEntry == [kind |-> "none", data |-> <<>>]

DirEntry == [kind |-> "dir", data |-> <<>>]

FileEntry(b) == [kind |-> "file", data |-> b]

Ok(f) == [fs |-> f, raised |-> "none"]

Fail(f, e) == [fs |-> f, raised |-> e]

isdir(f, path) == f[Node(path)].kind = "dir"

\* os.makedirs: the directory and every missing ancestor, the root included
makedirs(f, path) ==
    LET n == Node(path)
    IN  IF \E a \in Prefixes(n) : f[a].kind = "file" \/ f[n].kind = "dir"
        THEN Fail(f, "OSError")
        ELSE Ok([m \in Nodes |-> IF m \in Prefixes(n) THEN DirEntry ELSE f[m]])

\* open(path, 'wb+') and write: the file is created or truncated, then
\* holds the bytes written
open_write(f, path, bytes) ==
    LET n == Node(path)
    IN  IF n = <<>> \/ f[n].kind = "dir" \/ f[Parent(n)].kind # "dir"
        THEN Fail(f, "OSError")
        ELSE Ok([f EXCEPT ![n] = FileEntry(bytes)])

\* shutil.rmtree(self.root)
rmtree(f) == [m \in Nodes |-> NoEntry]

RootExists == fs[<<>>].kind = "dir"

----------------------------------------------------------------------------
(* Arguments *)

\* an optional keyword argument: <<>> when absent, <<v>> when given
Opt(S) == {<<>>} \cup { <<v>> : v \in S }

\* a lookup that never finds the keyword
kw_get_missing(opt, default) == default

\* kw.get(name, default)
kw_get(opt, default) == IF opt # <<>> THEN opt[1] ELSE default

NoKw == [should_dedent |-> <<>>, encoding |-> <<>>]

KwArgs == [should_dedent : Opt(BOOLEAN), encoding : Opt(Encodings)]

NoContents == Text(<<>>)

Item(k, n, p, c, sd, enc) ==
    [kind |-> k, n |-> n, path |-> p, contents |-> c, sd |-> sd, enc |-> enc]

NoItem == Item("unset", 0, <<>>, NoContents, FALSE, "")

\* a directory marker: a path string
DirMarker(p) == Item("str", 0, p, NoContents, FALSE, "")

\* a tuple of n fields; the fields past the n-th are not there
Tuple(n, p, c, sd, enc) ==
    Item("tuple", n, p,
         IF n >= 2 THEN c ELSE NoContents,
         IF n >= 3 THEN sd ELSE FALSE,
         IF n >= 4 THEN enc ELSE "")

\* something that is neither a string nor a tuple, such as 123
Other == Item("other", 0, <<>>, NoContents, FALSE, "")

FileSpecs(paths, contents) ==
    { Tuple(n, p, c, sd, enc) :
        n \in 2..4, p \in paths, c \in contents, sd \in BOOLEAN, enc \in Encodings }

\* tuples of 0, 1 and 5 fields
BadTuples == { Tuple(n, <<>>, NoContents, FALSE, "") : n \in {0, 1, 5} }

Items ==
    { DirMarker(p) : p \in PathStrings } \cup FileSpecs(PathStrings, Contents)
        \cup BadTuples \cup {Other}

CfgItems ==
    { DirMarker(p) : p \in CfgPaths } \cup FileSpecs(CfgPaths, CfgContents)
        \cup BadTuples \cup {Other}

----------------------------------------------------------------------------
(* mk, one item *)

\* the directory is made without looking first
MkDir_unguarded(f, path) == makedirs(f, path)

\* a string item: the directory is made unless it is there
MkDir(f, path) == IF ~isdir(f, path) THEN makedirs(f, path) ELSE Ok(f)

\* a tuple of any length is taken as a file spec
Unpack_any(it, sd, enc) ==
    IF it.n = 3 THEN [ok |-> TRUE, should_dedent |-> it.sd, encoding |-> enc]
    ELSE IF it.n = 4 THEN [ok |-> TRUE, should_dedent |-> it.sd, encoding |-> it.enc]
    ELSE [ok |-> TRUE, should_dedent |-> sd, encoding |-> enc]

\* the tuple's fields over mk's locals
Unpack(it, sd, enc) ==
    IF it.n = 2 THEN [ok |-> TRUE, should_dedent |-> sd, encoding |-> enc]
    ELSE IF it.n = 3 THEN [ok |-> TRUE, should_dedent |-> it.sd, encoding |-> enc]
    ELSE IF it.n = 4 THEN [ok |-> TRUE, should_dedent |-> it.sd, encoding |-> it.enc]
    ELSE [ok |-> FALSE, should_dedent |-> sd, encoding |-> enc]

\* the parent directory is left as it is
EnsureParent_skipped(f, path) == Ok(f)

\* the file's parent directory is made unless it is there
EnsureParent(f, path) ==
    LET parent == dirname(path)
    IN  IF ~isdir(f, parent) THEN makedirs(f, parent) ELSE Ok(f)

\* if should_dedent: contents = dedent(contents).  textwrap.dedent works on
\* str; given bytes it raises TypeError on Python 3 and dedents them on
\* Python 2, where bytes is str
Dedented(c, sd, p3) ==
    IF ~sd THEN [ok |-> TRUE, contents |-> c]
    ELSE IF is_bytestring(c) /\ p3 THEN [ok |-> FALSE, contents |-> c]
    ELSE [ok |-> TRUE, contents |-> [c EXCEPT !.data = dedent(c.data)]]

\* if not is_bytestring(contents): contents = contents.encode(encoding)
Encoded(c, enc) == IF ~is_bytestring(c) THEN Encode(c.data, enc) ELSE c.data

\* a well-formed tuple item, its fields unpacked
MkFile(f, filepath, contents, sd, enc, p3) ==
    LET path == NativePath(filepath)
        r    == EnsureParent(f, path)
        d    == Dedented(contents, sd, p3)
    IN  IF r.raised # "none" THEN r
        ELSE IF ~d.ok THEN Fail(r.fs, "TypeError")
        ELSE open_write(r.fs, path, Encoded(d.contents, enc))

Outcome(r, sd, enc) ==
    [fs |-> r.fs, raised |-> r.raised, should_dedent |-> sd, encoding |-> enc]

\* one iteration of mk's loop
MkItemOutcome(f, it, sd, enc, p3) ==
    IF it.kind = "str"
    THEN Outcome(MkDir(f, NativePath(it.path)), sd, enc)
    ELSE IF it.kind = "tuple"
    THEN LET u == Unpack(it, sd, enc)
         IN  IF ~u.ok THEN Outcome(Fail(f, "ValueError"), sd, enc)
             ELSE Outcome(MkFile(f, it.path, it.contents, u.should_dedent, u.encoding, p3),
                          u.should_dedent, u.encoding)
    ELSE Outcome(Fail(f, "TypeError"), sd, enc)

----------------------------------------------------------------------------
(* The other methods *)

\* the tree is removed without looking first
RemoveOutcome_unguarded(f) ==
    IF f[<<>>].kind = "dir" THEN Ok(rmtree(f)) ELSE Fail(f, "OSError")

\* remove(): the tree goes if the root is a directory
RemoveOutcome(f) == IF isdir(f, Root) THEN Ok(rmtree(f)) ELSE Ok(f)

\* every exit counts as clean
exit_clean_always(exc_type, exc_value, tb) == TRUE

\* __exit__'s test for a clean exit; "None" stands for None
exit_clean(exc_type, exc_value, tb) ==
    exc_type = "None" /\ exc_value = "None" /\ tb = "None"

\* what a with statement hands to __exit__: three Nones, or the exception
ExcInfos == { <<"None", "None", "None">>, <<"type", "value", "traceback">> }

\* resolve(path): the canonical absolute path, as the node it names
resolve(path) == Node(Join(<<Root>> \o Split(path, "/"), _sep))

RetNone == [kind |-> "None", node |-> <<>>]

RetSelf == [kind |-> "self", node |-> <<>>]

RetPath(n) == [kind |-> "path", node |-> n]

----------------------------------------------------------------------------
(* The state machine *)

\* FilesystemTree(root=None, should_dedent=..., encoding=...): the root is a
\* fresh, empty directory; the instance attributes are the keyword arguments
\* or, without them, the class attributes
Construct(kws) ==
    /\ fs = [n \in Nodes |-> IF n = <<>> THEN DirEntry ELSE NoEntry]
    /\ py3 \in BOOLEAN
    /\ \E k \in kws :
          /\ self_should_dedent = kw_get(k.should_dedent, ClassShouldDedent)
          /\ self_encoding = kw_get(k.encoding, ClassEncoding)
    /\ pc = "idle"
    /\ kw = NoKw
    /\ should_dedent = ClassShouldDedent
    /\ encoding = ClassEncoding
    /\ nitems = 0
    /\ done = 0
    /\ item = NoItem
    /\ raised = "none"
    /\ ret = RetNone
    /\ last = "__init__"
    /\ scope = "outside"

\* FilesystemTree()
Init == Construct({NoKw})

\* FilesystemTree(should_dedent=..., encoding=...), each given or not
InitCfg == Construct(KwArgs)

\* fs.should_dedent = v
SetShouldDedent(v) ==
    /\ pc = "idle"
    /\ self_should_dedent' = v
    /\ last' = "setattr"
    /\ raised' = "none"
    /\ ret' = RetNone
    /\ UNCHANGED <<fs, py3, self_encoding, pc, frame, scope>>

\* fs.encoding = v
SetEncoding(v) ==
    /\ pc = "idle"
    /\ self_encoding' = v
    /\ last' = "setattr"
    /\ raised' = "none"
    /\ ret' = RetNone
    /\ UNCHANGED <<fs, py3, self_should_dedent, pc, frame, scope>>

\* mk(*treedef, **kw) is entered with n items: the locals are resolved
MkCall(k, n) ==
    /\ pc = "idle"
    /\ pc' = "mk"
    /\ kw' = k
    /\ should_dedent' = kw_get(k.should_dedent, self_should_dedent)
    /\ encoding' = kw_get(k.encoding, self_encoding)
    /\ nitems' = n
    /\ done' = 0
    /\ item' = NoItem
    /\ last' = "mk"
    /\ raised' = "none"
    /\ ret' = RetNone
    /\ UNCHANGED <<fs, py3, attrs, scope>>

\* the loop takes the next item of treedef
MkItem(it) ==
    /\ pc = "mk"
    /\ raised = "none"
    /\ done < nitems
    /\ LET o == MkItemOutcome(fs, it, should_dedent, encoding, py3)
       IN  /\ fs' = o.fs
           /\ raised' = o.raised
           /\ should_dedent' = o.should_dedent
           /\ encoding' = o.encoding
    /\ item' = it
    /\ done' = done + 1
    /\ UNCHANGED <<py3, attrs, pc, kw, nitems, ret, last, scope>>

\* mk is left: it returns None after the last item, or the exception an
\* item raised propagates to the caller
MkReturn ==
    /\ pc = "mk"
    /\ raised # "none" \/ done = nitems
    /\ pc' = "idle"
    /\ kw' = NoKw
    /\ should_dedent' = ClassShouldDedent
    /\ encoding' = ClassEncoding
    /\ nitems' = 0
    /\ done' = 0
    /\ item' = NoItem
    /\ UNCHANGED <<fs, py3, attrs, raised, ret, last, scope>>

\* resolve(path)
Resolve(p) ==
    /\ pc = "idle"
    /\ ret' = RetPath(resolve(p))
    /\ last' = "resolve"
    /\ raised' = "none"
    /\ UNCHANGED <<fs, py3, attrs, pc, frame, scope>>

\* remove()
Remove ==
    /\ pc = "idle"
    /\ LET o == RemoveOutcome(fs)
       IN  fs' = o.fs /\ raised' = o.raised
    /\ ret' = RetNone
    /\ last' = "remove"
    /\ UNCHANGED <<py3, attrs, pc, frame, scope>>

\* with fs: ... is entered
Enter ==
    /\ pc = "idle"
    /\ scope = "outside"
    /\ scope' = "inside"
    /\ ret' = RetSelf
    /\ last' = "__enter__"
    /\ raised' = "none"
    /\ UNCHANGED <<fs, py3, attrs, pc, frame>>

\* the with block is left, normally or by an exception
Exit(exc) ==
    /\ pc = "idle"
    /\ scope = "inside"
    /\ scope' = "outside"
    /\ LET o == IF exit_clean(exc[1], exc[2], exc[3]) THEN RemoveOutcome(fs) ELSE Ok(fs)
       IN  /\ fs' = o.fs
           /\ raised' = IF exc[1] # "None" THEN "propagating" ELSE o.raised
    /\ ret' = RetNone
    /\ last' = "__exit__"
    /\ UNCHANGED <<py3, attrs, pc, frame>>

\* the tree runs: an instance with the class defaults, mk without keyword
\* arguments, every shape of item
Next ==
    \/ \E n \in 0..MaxBatch : MkCall(NoKw, n)
    \/ \E it \in Items : MkItem(it)
    \/ MkReturn
    \/ \E p \in PathStrings : Resolve(p)
    \/ Remove
    \/ Enter
    \/ \E exc \in ExcInfos : Exit(exc)

Spec == Init /\ [][Next]_vars

\* the configuration runs: every source of should_dedent and encoding
NextCfg ==
    \/ \E v \in BOOLEAN : SetShouldDedent(v)
    \/ \E v \in Encodings : SetEncoding(v)
    \/ \E k \in KwArgs, n \in 0..MaxBatch : MkCall(k, n)
    \/ \E it \in CfgItems : MkItem(it)
    \/ MkReturn
    \/ Remove

SpecCfg == InitCfg /\ [][NextCfg]_vars

----------------------------------------------------------------------------
(* Properties *)

\* the step is an iteration of mk's loop
ItemStep == pc = "mk" /\ done' = done + 1

WellFormed(it) == it.kind = "tuple" /\ it.n \in 2..4

Malformed(it) == it.kind = "other" \/ (it.kind = "tuple" /\ it.n \notin 2..4)

\* the call-level value of an option: the keyword argument, else the attribute
CallLevel(opt, attr) == IF opt = <<>> THEN attr ELSE opt[1]

\* the should_dedent and encoding the precedence rule gives an item
EffectiveDedent(it) ==
    IF it.n >= 3 THEN it.sd ELSE CallLevel(kw.should_dedent, self_should_dedent)

EffectiveEncoding(it) ==
    IF it.n >= 4 THEN it.enc ELSE CallLevel(kw.encoding, self_encoding)

\* the bytes a text content comes to under a dedent flag and an encoding
Derived(c, sd, enc) == Encode(IF sd THEN dedent(c.data) ELSE c.data, enc)

AllDirs(f, ns) == \A a \in ns : f[a].kind = "dir"

NoFile(f, ns) == \A a \in ns : f[a].kind # "file"

\* every entry but the root has a directory as its parent
TreeClosed(f) ==
    \A n \in Nodes : (n # <<>> /\ f[n].kind # "none") => f[Parent(n)].kind = "dir"

\* C1: in a mk call whose batch is one file spec, the locals used for the item
\* are the item's third and fourth fields where it has them, else the call's
\* keyword arguments where given, else the instance attributes; and a text
\* content is written dedented and encoded accordingly.
C1_Precedence ==
    (pc = "mk" /\ nitems = 1 /\ done = 1 /\ WellFormed(item)) =>
        /\ should_dedent = EffectiveDedent(item)
        /\ encoding = EffectiveEncoding(item)
        /\ (raised = "none" /\ item.contents.text) =>
              fs[resolve(item.path)] =
                  FileEntry(Derived(item.contents, EffectiveDedent(item),
                                    EffectiveEncoding(item)))

\* C1 witness: a 4-field item overrides both keyword arguments of its call,
\* which differ from it and from the instance attributes.
C1_Witness ==
    /\ pc = "mk" /\ nitems = 1 /\ done = 1 /\ raised = "none"
    /\ item = Tuple(4, <<"b">>, Text(<<32, 120>>), FALSE, "cp1140")
    /\ kw = [should_dedent |-> <<TRUE>>, encoding |-> <<"UTF-8">>]
    /\ self_should_dedent = FALSE /\ self_encoding = "cp1140"
    /\ fs[<<"b">>] = FileEntry(<<64, 167>>)

\* C2: a 2-field file spec, wherever it stands in its batch, is processed with
\* the call-level dedent flag and encoding (keyword argument, else instance
\* attribute).
C2_ItemOnly ==
    (pc = "mk" /\ done >= 1 /\ item.kind = "tuple" /\ item.n = 2) =>
        /\ should_dedent = CallLevel(kw.should_dedent, self_should_dedent)
        /\ encoding = CallLevel(kw.encoding, self_encoding)

\* C3: a file spec with bytes content, unless the filesystem refuses its path,
\* is processed without error and leaves exactly those bytes in the file.
C3_BytesVerbatim ==
    (pc = "mk" /\ done >= 1 /\ WellFormed(item) /\ ~item.contents.text
        /\ raised # "OSError") =>
        /\ raised = "none"
        /\ fs[resolve(item.path)] = FileEntry(item.contents.data)

\* the outcome the claim gives a directory marker: no failure, the directory
\* and its ancestors there, nothing changed if it was there before
DirMarkerMade(n) ==
    /\ raised' = "none"
    /\ AllDirs(fs', Prefixes(n))
    /\ fs[n].kind = "dir" => fs' = fs

\* C4 as stated: every directory marker, whatever is on disk, is processed
\* without failure, leaves its path a directory with all its ancestors, and
\* changes nothing when the path was a directory already.
C4_AnyDirMarker ==
    [][(ItemStep /\ item'.kind = "str") => DirMarkerMade(resolve(item'.path))]_vars

\* C4 amended: the same, unless the path or one of its ancestors is a regular
\* file; then the marker fails with a filesystem failure and changes nothing.
C4_DirMarker ==
    [][(ItemStep /\ item'.kind = "str") =>
          LET n == resolve(item'.path)
          IN  IF NoFile(fs, Prefixes(n))
              THEN DirMarkerMade(n)
              ELSE raised' = "OSError" /\ fs' = fs]_vars

\* C4 witness: the marker 'a/' has been processed after a file spec of the
\* same batch made 'a' as the parent of 'a/b'.
C4_Witness ==
    /\ pc = "mk" /\ done = 2 /\ raised = "none"
    /\ item = DirMarker(<<"a", "/">>)
    /\ fs[<<"a">>].kind = "dir" /\ fs[<<"a", "b">>].kind = "file"

\* C5: an item that is neither a string nor a tuple raises TypeError, a tuple
\* of other than 2, 3 or 4 fields raises ValueError; the disk is left as the
\* items before it made it, and once an item has raised, mk does nothing but
\* propagate the exception.
C5_InvalidItem ==
    [][/\ (ItemStep /\ Malformed(item')) =>
              /\ fs' = fs
              /\ raised' = IF item'.kind = "other" THEN "TypeError" ELSE "ValueError"
       /\ (pc = "mk" /\ raised # "none") => (pc' = "idle" /\ fs' = fs)]_vars

\* C5 witness: the second item of a batch raised TypeError with the file of
\* the first item on disk.
C5_Witness ==
    /\ pc = "mk" /\ done = 2 /\ raised = "TypeError" /\ item = Other
    /\ fs[<<"b">>].kind = "file"

\* C6: entering the with block returns the instance and touches nothing;
\* leaving it removes the root when no exception propagates, and leaves the
\* disk as it is when one does.
C6_ScopedUse ==
    [][/\ (scope = "outside" /\ scope' = "inside") => (ret' = RetSelf /\ fs' = fs)
       /\ (scope = "inside" /\ scope' = "outside") =>
              IF raised' = "propagating" THEN fs' = fs ELSE ~RootExists']_vars

\* C6 witness: the block was left by an exception and the tree is on disk.
C6_Witness ==
    /\ last = "__exit__" /\ raised = "propagating" /\ scope = "outside"
    /\ fs[<<"a", "b">>].kind = "file"

\* C7: remove() raises nothing and leaves no root; where there was no root
\* it changes nothing.
C7_Remove ==
    [][last' = "remove" =>
          /\ raised' = "none"
          /\ ~RootExists'
          /\ ~RootExists => fs' = fs]_vars

\* C7 witness: remove() has returned None without failure and there is no
\* root.
C7_Witness == last = "remove" /\ raised = "none" /\ ~RootExists /\ ret = RetNone

\* the path ends in a name, not in a separator
EndsInName(p) == p # <<>> /\ p[Len(p)] # "/"

\* C8: after every step every entry under the root has a directory as its
\* parent; and a file spec whose path ends in a name and is free (no file
\* among its ancestors, no directory at the path) never fails for want of a
\* parent: its ancestors are directories afterwards, and the file is there
\* unless dedent raised.
C8_Ancestors ==
    [][/\ TreeClosed(fs')
       /\ (ItemStep /\ WellFormed(item')) =>
              LET n == resolve(item'.path)
              IN  (EndsInName(item'.path) /\ NoFile(fs, Prefixes(Parent(n)))
                      /\ fs[n].kind # "dir") =>
                      /\ raised' \in {"none", "TypeError"}
                      /\ AllDirs(fs', Prefixes(Parent(n)))
                      /\ raised' = "none" => fs'[n].kind = "file"]_vars

\* C8 witness: the first item of a call has written the file 'a/b', its
\* parent 'a' made on the way.
C8_Witness ==
    /\ pc = "mk" /\ done = 1 /\ raised = "none" /\ WellFormed(item)
    /\ item.path = <<"a", "/", "b">>
    /\ fs[<<"a">>].kind = "dir" /\ fs[<<"a", "b">>].kind = "file"

\* C9: a text file spec processed without failure leaves in its file exactly
\* the bytes of its content, dedented when the item's effective dedent flag is
\* true and encoded with its effective encoding.
C9_LastWrite ==
    (pc = "mk" /\ done >= 1 /\ raised = "none" /\ WellFormed(item)
        /\ item.contents.text) =>
        fs[resolve(item.path)] =
            FileEntry(Derived(item.contents, EffectiveDedent(item),
                              EffectiveEncoding(item)))

\* C10 as stated: once there is no root, no operation brings it back.
C10_NeverAgain == [][~RootExists => ~RootExists']_vars

\* C10 amended: once there is no root, resolve(), remove(), scope entry and
\* exit and malformed mk items leave it absent; the only step that brings it
\* back is mk processing a directory marker or a well-formed file spec.
C10_OnlyMkRecreates ==
    [][(~RootExists /\ RootExists') =>
          (ItemStep /\ (item'.kind = "str" \/ WellFormed(item')))]_vars

\* C10 witness: after the removal, a mk call reached a malformed item and the
\* root is still absent.
C10_Witness == pc = "mk" /\ done = 1 /\ Malformed(item) /\ ~RootExists

====
